---------------------------- MODULE Spec2Model ----------------------------
(* A model of the article/tag data and filtering layer of the blog           *)
(* application: BlogDataService (the article repository), TagsComponent      *)
(* (the tag filter), HomeComponent (the filtered article list) and           *)
(* BlogComponent (the detail view of one article).                           *)
(*                                                                           *)
(* Strings are sequences of one-character strings, so that startsWith,       *)
(* indexOf, toLowerCase, trim, the default sort order and the parsing of a   *)
(* date are computed character by character, as the platform computes them.  *)
EXTENDS Integers, Sequences, FiniteSets, TLC

VARIABLES
  engine,           \* the script engine the page runs on (decides Array.prototype.sort)
  delivered,        \* whether ScullyRoutesService.available$ has delivered a catalog
  available,        \* the catalog ScullyRoutesService.available$ delivered last
  articles,         \* the latest value of BlogDataService.articles$
  tags,             \* the latest value of BlogDataService.tags$
  selectedTags,     \* TagsComponent.selectedTags
  tagsControl,      \* the value of TagsComponent.tagsControl
  filterLatest,     \* the latest value of tagsControl.valueChanges.pipe(startWith(''))
  filteredTags,     \* the latest value of TagsComponent.filteredTags$
  homeSubscribed,   \* whether the view is subscribed to HomeComponent.filteredArticles$
  currentFilters,   \* the latest value of currentFilters$.pipe(startWith([]))
  filteredArticles, \* the latest value of HomeComponent.filteredArticles$
  lastOp,           \* the handler that ran last, with its argument
  prevSelected,     \* selectedTags as it was when that handler was entered
  tagsChangeLog,    \* the values tagsChange emitted while that handler ran
  filteredTagsLog,  \* the values filteredTags$ emitted while that handler ran
  lastPassed,       \* the selection updateFilter was called with last ([] before)
  passedUnseen,     \* whether that call was made while no view was subscribed
  blogState,        \* BlogComponent: absent, waiting for articles$, done, or failed
  slug,             \* the slug ActivatedRoute.params holds
  pageTitle,        \* the title of the page (Title)
  metaKeywords,     \* the content of the keywords meta tag (Meta)
  metaDescription,  \* the content of the description meta tag (Meta)
  shareLink,        \* BlogComponent.shareLink
  lookedUpSlug,     \* the slug the lookup of BlogComponent was made with
  lookedUpIn,       \* the value of articles$ that lookup was made in
  firstSlug,        \* the slug params held when BlogComponent was constructed
  routerUrl         \* the URL Router.navigateByUrl was called with last

\* The detail view, the page it writes to, and the router.
blogVars == <<blogState, slug, pageTitle, metaKeywords, metaDescription, shareLink,
              lookedUpSlug, lookedUpIn, firstSlug, routerUrl>>

vars == <<engine, delivered, available, articles, tags, selectedTags, tagsControl,
          filterLatest, filteredTags, homeSubscribed, currentFilters,
          filteredArticles, lastOp, prevSelected, tagsChangeLog, filteredTagsLog,
          lastPassed, passedUnseen, blogVars>>

-----------------------------------------------------------------------------
(* Bounds of the model.                                                      *)

\* The longest catalog the source delivers.
MaxCatalog == 3

\* The longest selection the tag filter is driven to.
MaxSelected == 3

-----------------------------------------------------------------------------
(* Sequences.                                                                *)

Range(s) == {s[i] : i \in DOMAIN s}

\* Array.prototype.includes
Includes(s, x) == \E i \in DOMAIN s : s[i] = x

\* Array.prototype.filter, for the elements that are in the set `keep`.
RECURSIVE FilterSeq(_, _)
FilterSeq(s, keep) ==
  IF s = <<>> THEN <<>>
  ELSE IF Head(s) \in keep THEN <<Head(s)>> \o FilterSeq(Tail(s), keep)
       ELSE FilterSeq(Tail(s), keep)

RECURSIVE Reverse(_)
Reverse(s) == IF s = <<>> THEN <<>> ELSE Reverse(Tail(s)) \o <<Head(s)>>

\* The sequence s with x put at (1-based) position p.
InsertAt(s, p, x) == SubSeq(s, 1, p - 1) \o <<x>> \o SubSeq(s, p, Len(s))

\* The sequences of pairwise different elements of S, of length at most n.
RECURSIVE DistinctSeqs(_, _)
DistinctSeqs(S, n) ==
  IF n = 0 THEN {<<>>}
  ELSE LET shorter == DistinctSeqs(S, n - 1)
       IN shorter \cup {Append(s, x) : <<s, x>> \in
                          {p \in shorter \X S : p[2] \notin Range(p[1])}}

-----------------------------------------------------------------------------
(* Strings: sequences of characters.                                         *)

\* The UTF-16 code unit of a character.
CharCode(c) ==
  CASE c = " " -> 32  [] c = "-" -> 45  [] c = "/" -> 47
    [] c = "0" -> 48  [] c = "1" -> 49  [] c = "2" -> 50  [] c = "3" -> 51
    [] c = "4" -> 52  [] c = "5" -> 53  [] c = "6" -> 54  [] c = "7" -> 55
    [] c = "8" -> 56  [] c = "9" -> 57
    [] c = "A" -> 65  [] c = "B" -> 66  [] c = "Z" -> 90
    [] c = "a" -> 97  [] c = "b" -> 98  [] c = "c" -> 99  [] c = "d" -> 100
    [] c = "g" -> 103 [] c = "l" -> 108 [] c = "o" -> 111 [] c = "t" -> 116
    [] c = "u" -> 117 [] c = "z" -> 122

\* String.prototype.toLowerCase, on one character.
LowerChar(c) ==
  CASE c = "A" -> "a" [] c = "B" -> "b" [] c = "Z" -> "z" [] OTHER -> c

\* String.prototype.toLowerCase
ToLowerCase(s) == [i \in DOMAIN s |-> LowerChar(s[i])]

\* A fault of the test: equality in the place of startsWith.
StartsWith_Equal(s, p) == s = p

\* String.prototype.startsWith
StartsWith(s, p) == Len(p) <= Len(s) /\ SubSeq(s, 1, Len(p)) = p

\* String.prototype.indexOf: the 0-based place of the first occurrence, or -1.
IndexOf(s, p) ==
  LET at == {i \in 0..(Len(s) - Len(p)) : SubSeq(s, i + 1, i + Len(p)) = p}
  IN IF at = {} THEN -1 ELSE CHOOSE i \in at : \A j \in at : i <= j

IsWhiteSpace(c) == c = " "

\* String.prototype.trim
RECURSIVE TrimStart(_)
TrimStart(s) ==
  IF s # <<>> /\ IsWhiteSpace(Head(s)) THEN TrimStart(Tail(s)) ELSE s

Trim(s) == Reverse(TrimStart(Reverse(TrimStart(s))))

\* The < of two strings: by code units, a proper prefix first.
RECURSIVE StringLess(_, _)
StringLess(x, y) ==
  IF y = <<>> THEN FALSE
  ELSE IF x = <<>> THEN TRUE
  ELSE IF CharCode(Head(x)) # CharCode(Head(y))
       THEN CharCode(Head(x)) < CharCode(Head(y))
       ELSE StringLess(Tail(x), Tail(y))

\* null, as the value of a form control.
Null == <<"null">>

\* Whether a string or null is truthy.
Truthy(v) == v # Null /\ v # <<>>


-----------------------------------------------------------------------------
(* Dates: new Date('YYYY-MM-DD').getTime().                                  *)

Digit(c) == CharCode(c) - CharCode("0")

\* The number a run of decimal digits denotes.
RECURSIVE ParseDigits(_)
ParseDigits(s) ==
  IF s = <<>> THEN 0
  ELSE 10 * ParseDigits(SubSeq(s, 1, Len(s) - 1)) + Digit(s[Len(s)])

\* The days from 1970-01-01 to the day y-m-d of the proleptic Gregorian calendar.
DaysFromCivil(y, m, d) ==
  LET yy  == IF m <= 2 THEN y - 1 ELSE y
      era == yy \div 400
      yoe == yy - era * 400
      mp  == IF m > 2 THEN m - 3 ELSE m + 9
      doy == (153 * mp + 2) \div 5 + d - 1
      doe == yoe * 365 + yoe \div 4 - yoe \div 100 + doy
  IN era * 146097 + doe - 719468

\* new Date(s).getTime() of a date-only ISO string: UTC midnight of that day. The
\* unit here is the day; the milliseconds getTime() counts are 86,400,000 times as
\* many, which no comparison of two times can tell.
GetTime(s) ==
  DaysFromCivil(ParseDigits(SubSeq(s, 1, 4)), ParseDigits(SubSeq(s, 6, 7)),
                ParseDigits(SubSeq(s, 9, 10)))

-----------------------------------------------------------------------------
(* Array.prototype.sort. The comparator of articles$ answers -1 for two      *)
(* equal dates whichever comes first, so it is not a consistent comparator   *)
(* and the order of the result is the engine's: the model keeps the two      *)
(* algorithms engines run on a short array, V8's (a run is counted and       *)
(* reversed when descending, the rest is put in place by binary insertion)   *)
(* and SpiderMonkey's (insertion from the right).                            *)

Engines == {"v8", "spidermonkey"}

\* A fault of the comparator: the comparison the other way round.
DateComparator_Ascending(a, b) ==
  IF GetTime(a.date) > GetTime(b.date) THEN 1 ELSE -1

\* The comparator articles$ sorts with.
DateComparator(a, b) == IF GetTime(a.date) < GetTime(b.date) THEN 1 ELSE -1

\* The comparison sort() makes when it is given no comparator.
SortCompare(x, y) ==
  IF StringLess(x, y) THEN -1 ELSE IF StringLess(y, x) THEN 1 ELSE 0

Compare(kind, a, b) ==
  IF kind = "date" THEN DateComparator(a, b) ELSE SortCompare(a, b)

\* V8, CountAndMakeRun: the length of the run that starts the array.
RECURSIVE RunLength(_, _, _, _)
RunLength(kind, a, descending, idx) ==
  IF idx > Len(a) THEN Len(a)
  ELSE LET order == Compare(kind, a[idx], a[idx - 1])
       IN IF (descending /\ order >= 0) \/ (~descending /\ order < 0)
          THEN idx - 1
          ELSE RunLength(kind, a, descending, idx + 1)

\* V8, BinaryInsertionSort: the (0-based) place of pivot among a[left..right).
RECURSIVE BinarySearch(_, _, _, _, _)
BinarySearch(kind, a, pivot, left, right) ==
  IF left >= right THEN left
  ELSE LET mid == left + (right - left) \div 2
           order == Compare(kind, pivot, a[mid + 1])
       IN IF order < 0 THEN BinarySearch(kind, a, pivot, left, mid)
          ELSE BinarySearch(kind, a, pivot, mid + 1, right)

\* V8, BinaryInsertionSort: a[0..start) is sorted; the rest is inserted.
RECURSIVE BinaryInsertionSort(_, _, _)
BinaryInsertionSort(kind, a, start) ==
  IF start >= Len(a) THEN a
  ELSE LET pivot == a[start + 1]
           left == BinarySearch(kind, a, pivot, 0, start)
           placed == InsertAt(SubSeq(a, 1, start), left + 1, pivot)
                       \o SubSeq(a, start + 2, Len(a))
       IN BinaryInsertionSort(kind, placed, start + 1)

SortV8(kind, a) ==
  IF Len(a) < 2 THEN a
  ELSE LET descending == Compare(kind, a[2], a[1]) < 0
           run == RunLength(kind, a, descending, 3)
           made == IF descending
                   THEN Reverse(SubSeq(a, 1, run)) \o SubSeq(a, run + 1, Len(a))
                   ELSE a
       IN BinaryInsertionSort(kind, made, run)

\* SpiderMonkey, InsertionSort: item goes left past the elements that compare > 0.
RECURSIVE InsertFromRight(_, _, _, _)
InsertFromRight(kind, sorted, item, j) ==
  IF j >= 1 /\ Compare(kind, sorted[j], item) > 0
  THEN InsertFromRight(kind, sorted, item, j - 1)
  ELSE InsertAt(sorted, j + 1, item)

RECURSIVE InsertionSort(_, _, _)
InsertionSort(kind, a, i) ==
  IF i > Len(a) THEN a
  ELSE InsertionSort(kind,
         InsertFromRight(kind, SubSeq(a, 1, i - 1), a[i], i - 1)
           \o SubSeq(a, i + 1, Len(a)),
         i + 1)

\* Array.prototype.sort on engine eng.
Sort(eng, kind, a) ==
  IF eng = "v8" THEN SortV8(kind, a) ELSE InsertionSort(kind, a, 2)

-----------------------------------------------------------------------------
(* BlogDataService.                                                          *)

BlogPrefix == <<"/", "b", "l", "o", "g", "/">>

\* cur.tags || []
TagsOrEmpty(r) == IF r.hasTags THEN r.tags ELSE <<>>

\* The map of articles$: the routes under /blog/, sorted by the comparator.
ArticlesOf(eng, routes) ==
  Sort(eng, "date",
       FilterSeq(routes, {r \in Range(routes) : StartsWith(r.route, BlogPrefix)}))

\* A fault of the collection: an array in the place of the Set.
SetAdd_NoDedup(set, x) == Append(set, x)

\* Set.prototype.add, the set kept in insertion order.
SetAdd(set, x) == IF Includes(set, x) THEN set ELSE Append(set, x)

RECURSIVE AddAll(_, _)
AddAll(set, ts) ==
  IF ts = <<>> THEN set ELSE AddAll(SetAdd(set, Head(ts)), Tail(ts))

\* The reduce of tags$: the tags of every route, collected in a Set.
RECURSIVE CollectTags(_, _)
CollectTags(set, routes) ==
  IF routes = <<>> THEN set
  ELSE CollectTags(AddAll(set, TagsOrEmpty(Head(routes))), Tail(routes))

\* The maps of tags$.
TagsOf(eng, routes) == Sort(eng, "default", CollectTags(<<>>, routes))

-----------------------------------------------------------------------------
(* TagsComponent.filteredTags$ and HomeComponent.filteredArticles$.          *)

\* A fault of the first map: the text is compared as typed.
ByText_CaseSensitive(filter, ts) ==
  IF Truthy(filter)
  THEN FilterSeq(ts, {t \in Range(ts) : IndexOf(ToLowerCase(t), filter) = 0})
  ELSE ts

\* The first map of filteredTags$: the tags that start with the text, if any.
ByText(filter, ts) ==
  IF Truthy(filter)
  THEN FilterSeq(ts, {t \in Range(ts) :
                        IndexOf(ToLowerCase(t), ToLowerCase(filter)) = 0})
  ELSE ts

\* A fault of the second map: the selected tags are kept.
NotSelected_Keep(filtered, sel) == filtered

\* The second map of filteredTags$: without the tags that are selected.
NotSelected(filtered, sel) ==
  FilterSeq(filtered, {t \in Range(filtered) : ~Includes(sel, t)})

FilteredTagsOf(filter, ts, sel) == NotSelected(ByText(filter, ts), sel)

\* A fault of the test: every selected tag is asked for (AND in the place of OR).
SomeTagIn_Every(a, ts) ==
  \A i \in DOMAIN ts : Includes(TagsOrEmpty(a), ts[i])

\* A fault of the match: the case of the letters is not looked at.
SomeTagIn_IgnoreCase(a, ts) ==
  \E i \in DOMAIN TagsOrEmpty(a) :
    \E j \in DOMAIN ts : ToLowerCase(ts[j]) = ToLowerCase(TagsOrEmpty(a)[i])

\* (a.tags || []).some((t) => tags.includes(t))
SomeTagIn(a, ts) ==
  \E i \in DOMAIN TagsOrEmpty(a) : Includes(ts, TagsOrEmpty(a)[i])

\* The map of filteredArticles$.
FilterArticles(arts, ts) ==
  IF Len(ts) > 0
  THEN FilterSeq(arts, {a \in Range(arts) : SomeTagIn(a, ts)})
  ELSE arts

-----------------------------------------------------------------------------
(* The records and the inputs the model draws from.                          *)

TagA  == <<"a">>
TagB  == <<"B">>
TagAb == <<"a", "b">>
TagZ  == <<"z">>
\* Free text that is the tag "B" but for the case of its letter.
TagLowerB == <<"b">>

Date20200803 == <<"2", "0", "2", "0", "-", "0", "8", "-", "0", "3">>
Date20201120 == <<"2", "0", "2", "0", "-", "1", "1", "-", "2", "0">>
Date20191231 == <<"2", "0", "1", "9", "-", "1", "2", "-", "3", "1">>

\* Texts no operation looks into are kept in one piece.
Article1 == [route |-> BlogPrefix \o <<"a">>, date |-> Date20200803,
             hasTags |-> TRUE, tags |-> <<TagAb, TagA>>,
             title |-> <<"Test">>, description |-> <<"About tests">>,
             hasKeywords |-> TRUE, keywords |-> <<<<"unit tests">>, TagA>>]
Article2 == [route |-> BlogPrefix \o <<"b">>, date |-> Date20201120,
             hasTags |-> TRUE, tags |-> <<TagB>>,
             title |-> <<"Build">>, description |-> <<"About builds">>,
             hasKeywords |-> TRUE, keywords |-> <<<<"ci">>>>]
Article3 == [route |-> BlogPrefix \o <<"c">>, date |-> Date20200803,
             hasTags |-> TRUE, tags |-> <<TagA, TagB>>,
             title |-> <<"Cache">>, description |-> <<"About caches">>,
             hasKeywords |-> FALSE, keywords |-> <<>>]
\* An article whose front matter has no tags and no keywords.
Article4 == [route |-> BlogPrefix \o <<"d">>, date |-> Date20191231,
             hasTags |-> FALSE, tags |-> <<>>,
             title |-> <<"Draft">>, description |-> <<"About drafts">>,
             hasKeywords |-> FALSE, keywords |-> <<>>]
\* A route that is no article (/about), with front matter of its own.
About    == [route |-> <<"/", "a", "b", "o", "u", "t">>, date |-> <<>>,
             hasTags |-> TRUE, tags |-> <<TagZ, TagA>>,
             title |-> <<"About">>, description |-> <<"About me">>,
             hasKeywords |-> FALSE, keywords |-> <<>>]

RoutePool == {Article1, Article2, Article3, Article4, About}

\* The catalogs of the repository's specification: routes are unique.
Catalogs == DistinctSeqs(RoutePool, MaxCatalog)

\* The catalogs of the application's specification.
AppCatalogs == {<<Article1, Article2, Article3>>, <<Article4, Article2>>}

\* What is submitted as free text, typed as a filter, and asked to be removed.
AddValues    == {<<>>, <<" ">>, <<" ", " ">>, TagA, <<" ", "a">>, TagB, TagLowerB}
TextValues   == {<<>>, TagA, TagB}
RemoveValues == {TagA, TagB, TagAb}

-----------------------------------------------------------------------------
(* The state after the construction of the home view: nothing delivered,     *)
(* nothing selected, the control empty, filteredTags$ subscribed by its      *)
(* view, the title and the metas of the page those of the home view.         *)

\* undefined, as the value of a field that was never assigned.
Undefined == <<"undefined">>

\* What the constructor of HomeComponent gives to Title and Meta.
HomeTitle == <<"Diehl With Software">>
HomeDescription ==
  <<"Software related blog with articles focused mainly on Angular.">>
HomeKeywords == <<"angular, blog, nx, Ryan Diehl, @DiehlWithRyan">>

Init ==
  /\ engine \in Engines
  /\ delivered = FALSE
  /\ available = <<>>
  /\ articles = <<>>
  /\ tags = <<>>
  /\ selectedTags = <<>>
  /\ tagsControl = Null
  /\ filterLatest = <<>>
  /\ filteredTags = <<>>
  /\ homeSubscribed = FALSE
  /\ currentFilters = <<>>
  /\ filteredArticles = <<>>
  /\ lastOp = [op |-> "init", arg |-> <<>>]
  /\ prevSelected = <<>>
  /\ tagsChangeLog = <<>>
  /\ filteredTagsLog = <<>>
  /\ lastPassed = <<>>
  /\ passedUnseen = FALSE
  /\ blogState = "absent"
  /\ slug = Undefined
  /\ pageTitle = HomeTitle
  /\ metaKeywords = HomeKeywords
  /\ metaDescription = HomeDescription
  /\ shareLink = Undefined
  /\ lookedUpSlug = Undefined
  /\ lookedUpIn = <<>>
  /\ firstSlug = Undefined
  /\ routerUrl = Undefined

\* One emission of filteredTags$, with the selection it was computed against.
Emission(filter, ts, sel) == [cands |-> FilteredTagsOf(filter, ts, sel), sel |-> sel]

\* A fault of the map of articles$: sort() before filter(), on the array of the
\* source (taken here for a catalog of articles only).
CatalogAfterMaps_SortInPlace(eng, routes) ==
  IF \A r \in Range(routes) : StartsWith(r.route, BlogPrefix)
  THEN Sort(eng, "date", routes)
  ELSE routes

\* The array available$ holds, after the maps of articles$ and tags$ ran on it:
\* filter() gives sort() an array of its own, and reduce() only reads.
CatalogAfterMaps(eng, routes) == routes

-----------------------------------------------------------------------------
(* BlogComponent.                                                            *)

Slugs == {<<"a">>, <<"d">>, <<"x">>}

\* The catalogs of the detail view's specification.
BlogCatalogs == {<<Article2, Article1, Article4>>, <<Article4, Article3>>}

TitleSuffix == <<" | Diehl With Software">>
KeywordsPrefix == <<"b", "l", "o", "g">>
TweetUrl == <<"https://twitter.com/intent/tweet?url=">>

\* window.location.href while the route /blog/<s> is shown.
Href(s) == <<"(origin)">> \o BlogPrefix \o s

\* A fault of the lookup: the test holds for every route.
FindIndex_Any(routes, s) == IF routes = <<>> THEN 0 ELSE 1

\* routes.find((r) => r.route === `/blog/${slug}`): the (1-based) place of the
\* first route that matches, 0 for undefined.
FindIndex(routes, s) ==
  LET at == {i \in DOMAIN routes : routes[i].route = BlogPrefix \o s}
  IN IF at = {} THEN 0 ELSE CHOOSE i \in at : \A j \in at : i <= j

\* Array.prototype.join
RECURSIVE Join(_, _)
Join(strs, sep) ==
  IF strs = <<>> THEN <<>>
  ELSE IF Len(strs) = 1 THEN strs[1]
  ELSE strs[1] \o sep \o Join(Tail(strs), sep)

\* A fault of the default: the missing field is spread as one entry.
KeywordsOrEmpty_Placeholder(a) ==
  IF a.hasKeywords THEN a.keywords ELSE <<(<<"undefined">>)>>

\* article.keywords || []
KeywordsOrEmpty(a) == IF a.hasKeywords THEN a.keywords ELSE <<>>

\* A fault of the content: the keywords before the tags.
KeywordsContent_KeywordsFirst(a) ==
  Join(<<KeywordsPrefix>> \o KeywordsOrEmpty(a) \o TagsOrEmpty(a), <<",", " ">>)

\* The content of the keywords meta tag.
KeywordsContent(a) ==
  Join(<<KeywordsPrefix>> \o TagsOrEmpty(a) \o KeywordsOrEmpty(a), <<",", " ">>)

\* The map, take(1) and the subscriber of the constructor, on the slug s and the
\* value arts of articles$: an article that is undefined makes the subscriber
\* throw on article.title, before it has written anything.
BlogLookup(s, arts) ==
  LET index == FindIndex(arts, s)
  IN /\ lookedUpSlug' = s
     /\ lookedUpIn' = arts
     /\ IF index = 0
        THEN /\ blogState' = "failed"
             /\ UNCHANGED <<pageTitle, metaKeywords, metaDescription, shareLink>>
        ELSE /\ blogState' = "done"
             /\ pageTitle' = arts[index].title \o TitleSuffix
             /\ metaKeywords' = KeywordsContent(arts[index])
             /\ metaDescription' = arts[index].description
             /\ shareLink' = TweetUrl \o Href(s)

\* A fault of the subscription: no take(1) after a lookup that failed.
BlogOnDeliver_Retry(arts) ==
  IF blogState \in {"waiting", "failed"}
  THEN BlogLookup(slug, arts)
  ELSE UNCHANGED <<blogState, pageTitle, metaKeywords, metaDescription, shareLink,
                   lookedUpSlug, lookedUpIn>>

\* What a value arts of articles$ does to the detail view: the lookup, when the
\* view waits for it; nothing after take(1) completed.
BlogOnDeliver(arts) ==
  IF blogState = "waiting"
  THEN BlogLookup(slug, arts)
  ELSE UNCHANGED <<blogState, pageTitle, metaKeywords, metaDescription, shareLink,
                   lookedUpSlug, lookedUpIn>>

\* A fault of the maps: articles$ and tags$ keep the first value they emitted.
Deliver_FirstOnly(c) ==
  /\ delivered' = TRUE
  /\ available' = CatalogAfterMaps(engine, c)
  /\ articles' = IF delivered THEN articles ELSE ArticlesOf(engine, c)
  /\ tags' = IF delivered THEN tags ELSE TagsOf(engine, c)
  /\ filteredTags' = FilteredTagsOf(filterLatest, tags', selectedTags)
  /\ filteredTagsLog' = <<Emission(filterLatest, tags', selectedTags)>>
  /\ filteredArticles' = IF homeSubscribed
                         THEN FilterArticles(articles', currentFilters)
                         ELSE filteredArticles
  /\ lastOp' = [op |-> "deliver", arg |-> <<>>]
  /\ prevSelected' = selectedTags
  /\ tagsChangeLog' = <<>>
  /\ BlogOnDeliver(articles')
  /\ UNCHANGED <<engine, selectedTags, tagsControl, filterLatest, homeSubscribed,
                 currentFilters, lastPassed, passedUnseen, slug, firstSlug,
                 routerUrl>>

\* ScullyRoutesService.available$ delivers the catalog c: articles$ and tags$ map
\* it, and filteredTags$ and filteredArticles$ recompute.
Deliver(c) ==
  /\ delivered' = TRUE
  /\ available' = CatalogAfterMaps(engine, c)
  /\ articles' = ArticlesOf(engine, c)
  /\ tags' = TagsOf(engine, c)
  /\ filteredTags' = FilteredTagsOf(filterLatest, tags', selectedTags)
  /\ filteredTagsLog' = <<Emission(filterLatest, tags', selectedTags)>>
  /\ filteredArticles' = IF homeSubscribed
                         THEN FilterArticles(articles', currentFilters)
                         ELSE filteredArticles
  /\ lastOp' = [op |-> "deliver", arg |-> <<>>]
  /\ prevSelected' = selectedTags
  /\ tagsChangeLog' = <<>>
  /\ BlogOnDeliver(articles')
  /\ UNCHANGED <<engine, selectedTags, tagsControl, filterLatest, homeSubscribed,
                 currentFilters, lastPassed, passedUnseen, slug, firstSlug,
                 routerUrl>>

\* A fault of the view: currentFilters$ replays the selection passed last, as a
\* BehaviorSubject would.
HomeSubscribe_Replay ==
  /\ ~homeSubscribed
  /\ homeSubscribed' = TRUE
  /\ currentFilters' = lastPassed
  /\ filteredArticles' = IF delivered THEN FilterArticles(articles, lastPassed)
                         ELSE filteredArticles
  /\ lastOp' = [op |-> "subscribe", arg |-> <<>>]
  /\ prevSelected' = selectedTags
  /\ tagsChangeLog' = <<>>
  /\ filteredTagsLog' = <<>>
  /\ UNCHANGED <<engine, delivered, available, articles, tags, selectedTags,
                 tagsControl, filterLatest, filteredTags, lastPassed, passedUnseen,
                 blogVars>>

\* The view subscribes to filteredArticles$: currentFilters$ starts with [], and
\* articles$ gives the catalog delivered last, if any.
HomeSubscribe ==
  /\ ~homeSubscribed
  /\ homeSubscribed' = TRUE
  /\ currentFilters' = <<>>
  /\ filteredArticles' = IF delivered THEN FilterArticles(articles, <<>>)
                         ELSE filteredArticles
  /\ lastOp' = [op |-> "subscribe", arg |-> <<>>]
  /\ prevSelected' = selectedTags
  /\ tagsChangeLog' = <<>>
  /\ filteredTagsLog' = <<>>
  /\ UNCHANGED <<engine, delivered, available, articles, tags, selectedTags,
                 tagsControl, filterLatest, filteredTags, lastPassed, passedUnseen,
                 blogVars>>

\* A fault of the view: the selection is taken but the list is not computed again.
UpdateFilter_NoRecompute(sel) ==
  /\ lastPassed' = sel
  /\ passedUnseen' = ~homeSubscribed
  /\ IF homeSubscribed
     THEN /\ currentFilters' = sel
          /\ filteredArticles' = filteredArticles
     ELSE UNCHANGED <<currentFilters, filteredArticles>>

\* HomeComponent.updateFilter(sel), which tagsChange calls: a Subject keeps nothing
\* for a view that is not subscribed.
UpdateFilter(sel) ==
  /\ lastPassed' = sel
  /\ passedUnseen' = ~homeSubscribed
  /\ IF homeSubscribed
     THEN /\ currentFilters' = sel
          /\ filteredArticles' = IF delivered THEN FilterArticles(articles, sel)
                                 ELSE filteredArticles
     ELSE UNCHANGED <<currentFilters, filteredArticles>>

\* The text of the input changes to v: valueChanges emits it.
TextChange(v) ==
  /\ tagsControl' = v
  /\ filterLatest' = v
  /\ filteredTags' = IF delivered THEN FilteredTagsOf(v, tags, selectedTags)
                     ELSE filteredTags
  /\ filteredTagsLog' = IF delivered THEN <<Emission(v, tags, selectedTags)>>
                        ELSE <<>>
  /\ lastOp' = [op |-> "text", arg |-> v]
  /\ prevSelected' = selectedTags
  /\ tagsChangeLog' = <<>>
  /\ UNCHANGED <<engine, delivered, available, articles, tags, selectedTags,
                 homeSubscribed, currentFilters, filteredArticles, lastPassed,
                 passedUnseen, blogVars>>

\* A fault of the lookup: lastIndexOf in the place of indexOf.
ArrayIndexOf_Last(s, x) ==
  LET at == {i \in DOMAIN s : s[i] = x}
  IN IF at = {} THEN -1 ELSE (CHOOSE i \in at : \A j \in at : i >= j) - 1

\* Array.prototype.indexOf: the 0-based place of the first x, or -1.
ArrayIndexOf(s, x) ==
  LET at == {i \in DOMAIN s : s[i] = x}
  IN IF at = {} THEN -1 ELSE (CHOOSE i \in at : \A j \in at : i <= j) - 1

\* Array.prototype.splice(index, 1): index is 0-based, and counts from the end
\* when it is negative.
Splice(s, index) ==
  LET start == IF index < 0
               THEN (IF Len(s) + index < 0 THEN 0 ELSE Len(s) + index)
               ELSE (IF index > Len(s) THEN Len(s) ELSE index)
  IN SubSeq(s, 1, start) \o SubSeq(s, start + 2, Len(s))

\* A fault of the push: a tag that is selected already is not pushed again.
Push_Unique(s, x) == IF Includes(s, x) THEN s ELSE Append(s, x)

\* A fault of add: the trimmed value is what is kept.
Push_Trimmed(s, x) == Append(s, Trim(x))

\* Array.prototype.push
Push(s, x) == Append(s, x)

\* A fault of the test of add: the value is not trimmed.
ShouldAdd_NoTrim(value) == Truthy(value)

\* The test of add: (value || '').trim()
ShouldAdd(value) == Truthy(Trim(value))

\* A fault of the test of remove: the index is not looked at.
RemoveFound_Always(index) == TRUE

\* The test of remove: index >= 0
RemoveFound(index) == index >= 0

\* A fault of the emission: the value is emitted twice.
TagsChangeEmit_Twice(sel) == <<sel, sel>>

\* this.tagsChange.emit(this.selectedTags): what tagsChange emits, at once (the
\* EventEmitter is a synchronous one).
TagsChangeEmit(sel) == <<sel>>

\* A fault of add: the control is reset only when a tag was added.
Add_ResetWhenAdded(value) ==
  LET added == ShouldAdd(value)
      sel == IF added THEN Push(selectedTags, value) ELSE selectedTags
  IN /\ added => Len(selectedTags) < MaxSelected
     /\ selectedTags' = sel
     /\ tagsChangeLog' = IF added THEN TagsChangeEmit(sel) ELSE <<>>
     /\ IF added THEN UpdateFilter(sel)
        ELSE UNCHANGED <<currentFilters, filteredArticles, lastPassed, passedUnseen>>
     /\ tagsControl' = IF added THEN Null ELSE tagsControl
     /\ filterLatest' = IF added THEN Null ELSE filterLatest
     /\ filteredTagsLog' =
          IF delivered /\ added
          THEN <<Emission(filterLatest, tags, sel), Emission(Null, tags, sel)>>
          ELSE <<>>
     /\ filteredTags' = IF delivered /\ added THEN FilteredTagsOf(Null, tags, sel)
                        ELSE filteredTags
     /\ lastOp' = [op |-> "add", arg |-> value]
     /\ prevSelected' = selectedTags
     /\ UNCHANGED <<engine, delivered, available, articles, tags, homeSubscribed,
                    blogVars>>

\* TagsComponent.add: a chip input event with the text `value`.
Add(value) ==
  LET added == ShouldAdd(value)
      sel == IF added THEN Push(selectedTags, value) ELSE selectedTags
  IN /\ added => Len(selectedTags) < MaxSelected
     /\ selectedTags' = sel
     /\ tagsChangeLog' = IF added THEN TagsChangeEmit(sel) ELSE <<>>
     /\ IF added THEN UpdateFilter(sel)
        ELSE UNCHANGED <<currentFilters, filteredArticles, lastPassed, passedUnseen>>
     /\ tagsControl' = Null
     /\ filterLatest' = Null
     /\ filteredTagsLog' =
          IF delivered
          THEN (IF added THEN <<Emission(filterLatest, tags, sel)>> ELSE <<>>)
                 \o <<Emission(Null, tags, sel)>>
          ELSE <<>>
     /\ filteredTags' = IF delivered THEN FilteredTagsOf(Null, tags, sel)
                        ELSE filteredTags
     /\ lastOp' = [op |-> "add", arg |-> value]
     /\ prevSelected' = selectedTags
     /\ UNCHANGED <<engine, delivered, available, articles, tags, homeSubscribed,
                    blogVars>>

\* TagsComponent.remove
Remove(tag) ==
  LET index == ArrayIndexOf(selectedTags, tag)
      found == RemoveFound(index)
      sel == IF found THEN Splice(selectedTags, index) ELSE selectedTags
  IN /\ selectedTags' = sel
     /\ tagsChangeLog' = IF found THEN TagsChangeEmit(sel) ELSE <<>>
     /\ IF found THEN UpdateFilter(sel)
        ELSE UNCHANGED <<currentFilters, filteredArticles, lastPassed, passedUnseen>>
     /\ filteredTagsLog' =
          IF found /\ delivered THEN <<Emission(filterLatest, tags, sel)>> ELSE <<>>
     /\ filteredTags' = IF found /\ delivered
                        THEN FilteredTagsOf(filterLatest, tags, sel)
                        ELSE filteredTags
     /\ lastOp' = [op |-> "remove", arg |-> tag]
     /\ prevSelected' = selectedTags
     /\ UNCHANGED <<engine, delivered, available, articles, tags, tagsControl,
                    filterLatest, homeSubscribed, blogVars>>

\* TagsComponent.selected: an option of the autocomplete was chosen.
Selected(tag) ==
  LET sel == Push(selectedTags, tag)
  IN /\ Len(selectedTags) < MaxSelected
     /\ selectedTags' = sel
     /\ tagsChangeLog' = TagsChangeEmit(sel)
     /\ UpdateFilter(sel)
     /\ tagsControl' = Null
     /\ filterLatest' = Null
     /\ filteredTagsLog' =
          IF delivered
          THEN <<Emission(filterLatest, tags, sel), Emission(Null, tags, sel)>>
          ELSE <<>>
     /\ filteredTags' = IF delivered THEN FilteredTagsOf(Null, tags, sel)
                        ELSE filteredTags
     /\ lastOp' = [op |-> "selected", arg |-> tag]
     /\ prevSelected' = selectedTags
     /\ UNCHANGED <<engine, delivered, available, articles, tags, homeSubscribed,
                    blogVars>>

\* The router shows /blog/<s> in a new BlogComponent: params holds s, and
\* articles$ gives the catalog delivered last, if any.
BlogConstruct(s) ==
  /\ blogState = "absent"
  /\ slug' = s
  /\ firstSlug' = s
  /\ IF delivered
     THEN BlogLookup(s, articles)
     ELSE /\ blogState' = "waiting"
          /\ UNCHANGED <<pageTitle, metaKeywords, metaDescription, shareLink,
                         lookedUpSlug, lookedUpIn>>
  /\ lastOp' = [op |-> "construct", arg |-> s]
  /\ prevSelected' = selectedTags
  /\ tagsChangeLog' = <<>>
  /\ filteredTagsLog' = <<>>
  /\ UNCHANGED <<engine, delivered, available, articles, tags, selectedTags,
                 tagsControl, filterLatest, filteredTags, homeSubscribed,
                 currentFilters, filteredArticles, lastPassed, passedUnseen,
                 routerUrl>>

\* A fault of the subscription: no take(1), so a slug that comes after the
\* lookup is looked up too.
ParamsChange_Relookup(s) ==
  /\ blogState # "absent"
  /\ s # slug
  /\ slug' = s
  /\ IF delivered
     THEN BlogLookup(s, articles)
     ELSE UNCHANGED <<blogState, pageTitle, metaKeywords, metaDescription,
                      shareLink, lookedUpSlug, lookedUpIn>>
  /\ lastOp' = [op |-> "params", arg |-> s]
  /\ prevSelected' = selectedTags
  /\ tagsChangeLog' = <<>>
  /\ filteredTagsLog' = <<>>
  /\ UNCHANGED <<engine, delivered, available, articles, tags, selectedTags,
                 tagsControl, filterLatest, filteredTags, homeSubscribed,
                 currentFilters, filteredArticles, lastPassed, passedUnseen,
                 firstSlug, routerUrl>>

\* The router goes from one article to another: the route is the same, so the
\* BlogComponent is kept and params emits the slug s. combineLatest keeps it
\* while the view waits; after take(1) nothing listens.
ParamsChange(s) ==
  /\ blogState # "absent"
  /\ s # slug
  /\ slug' = s
  /\ lastOp' = [op |-> "params", arg |-> s]
  /\ prevSelected' = selectedTags
  /\ tagsChangeLog' = <<>>
  /\ filteredTagsLog' = <<>>
  /\ UNCHANGED <<engine, delivered, available, articles, tags, selectedTags,
                 tagsControl, filterLatest, filteredTags, homeSubscribed,
                 currentFilters, filteredArticles, lastPassed, passedUnseen,
                 blogState, pageTitle, metaKeywords, metaDescription, shareLink,
                 lookedUpSlug, lookedUpIn, firstSlug, routerUrl>>

\* component.read({..., slug: s}) on the HomeComponent: the class has no read
\* method and no Router, so the call throws and nothing is navigated to.
Read(s) ==
  /\ lastOp' = [op |-> "read", arg |-> s]
  /\ prevSelected' = selectedTags
  /\ tagsChangeLog' = <<>>
  /\ filteredTagsLog' = <<>>
  /\ UNCHANGED <<engine, delivered, available, articles, tags, selectedTags,
                 tagsControl, filterLatest, filteredTags, homeSubscribed,
                 currentFilters, filteredArticles, lastPassed, passedUnseen,
                 blogVars>>

\* One more subscriber of articles$ and tags$: available$ replays the catalog it
\* holds, and the maps run on it again.
Resubscribe ==
  /\ delivered
  /\ available' = CatalogAfterMaps(engine, available)
  /\ articles' = ArticlesOf(engine, available)
  /\ tags' = TagsOf(engine, available)
  /\ lastOp' = [op |-> "resubscribe", arg |-> <<>>]
  /\ prevSelected' = selectedTags
  /\ tagsChangeLog' = <<>>
  /\ filteredTagsLog' = <<>>
  /\ UNCHANGED <<engine, delivered, selectedTags, tagsControl, filterLatest,
                 filteredTags, homeSubscribed, currentFilters, filteredArticles,
                 lastPassed, passedUnseen, blogVars>>

-----------------------------------------------------------------------------
(* The application: the catalog source, the home view and its tag filter.    *)

Next ==
  \/ \E c \in AppCatalogs : Deliver(c)
  \/ HomeSubscribe
  \/ \E v \in TextValues : TextChange(v)
  \/ \E v \in AddValues : Add(v)
  \/ \E t \in RemoveValues : Remove(t)
  \/ \E t \in Range(tags) : Selected(t)

Spec == Init /\ [][Next]_vars

(* The repository alone, over every catalog of the bounds.                   *)

NextRepo ==
  \/ \E c \in Catalogs : Deliver(c)
  \/ Resubscribe

SpecRepo == Init /\ [][NextRepo]_vars

(* The detail view: the catalog source, the router and the BlogComponent.    *)

NextBlog ==
  \/ \E c \in BlogCatalogs : Deliver(c)
  \/ \E s \in Slugs : BlogConstruct(s)
  \/ \E s \in Slugs : ParamsChange(s)
  \/ \E s \in Slugs : Read(s)

SpecBlog == Init /\ [][NextBlog]_vars

(* The site: one catalog source behind the home view, its tag filter and the *)
(* detail view.                                                              *)

SiteValues == {TagA, TagB}

NextSite ==
  \/ \E c \in BlogCatalogs : Deliver(c)
  \/ HomeSubscribe
  \/ \E v \in SiteValues : Add(v)
  \/ \E s \in Slugs : BlogConstruct(s)

SpecSite == Init /\ [][NextSite]_vars

-----------------------------------------------------------------------------
(* Properties.                                                               *)

\* The elements of s at the places idx, in the order of s.
SubsequenceAt(s, idx) ==
  [k \in 1..Cardinality(idx) |->
     s[CHOOSE i \in idx : Cardinality({j \in idx : j < i}) = k - 1]]

\* The set of the tags of an article; none when it has no tags field.
TagSet(a) == IF a.hasTags THEN Range(a.tags) ELSE {}

\* Empty, or made of white space only.
IsBlank(v) == \A i \in DOMAIN v : v[i] = " "

\* How many times x is in s.
Count(s, x) == Cardinality({i \in DOMAIN s : s[i] = x})

\* The list the view holds once it is subscribed and a catalog was delivered.
HomeEmitted == homeSubscribed /\ delivered

(* C1. Home View filtering: the filtered list is the article list itself     *)
(* when the selection passed to updateFilter is empty, and otherwise the     *)
(* subsequence of the article list, in its order, of the articles that have  *)
(* at least one tag in the selection.                                        *)
C1_HomeFiltering ==
  HomeEmitted =>
    /\ currentFilters = <<>> => filteredArticles = articles
    /\ currentFilters # <<>> =>
         filteredArticles =
           SubsequenceAt(articles,
             {i \in DOMAIN articles :
                TagSet(articles[i]) \cap Range(currentFilters) # {}})

\* Two tags are selected; an article that has only one of them is listed, one
\* that has neither is not.
C1_Witness ==
  /\ HomeEmitted
  /\ lastOp.op \in {"add", "selected"}
  /\ currentFilters = <<TagA, TagAb>>
  /\ Len(articles) = 3
  /\ Len(filteredArticles) = 2
  /\ Article3 \in Range(filteredArticles)

(* C2. articles() is sorted by date descending: of two articles of the       *)
(* result, the one that comes first has a date that is not before the        *)
(* other's. The dates are compared as ISO strings.                           *)
C2_ArticlesSortedByDateDescending ==
  delivered =>
    \A i, j \in DOMAIN articles :
      i < j => ~StringLess(articles[i].date, articles[j].date)

\* A catalog of three articles in ascending order of date was delivered, and
\* articles() holds them the other way round.
C2_Witness ==
  /\ lastOp.op = "deliver"
  /\ available = <<Article4, Article1, Article2>>
  /\ articles = <<Article2, Article1, Article4>>

(* C3. tags() holds no tag twice and is sorted ascending, tag by tag in the  *)
(* order of the code units.                                                  *)
C3_TagsSortedNoDuplicates ==
  delivered =>
    \A i, j \in DOMAIN tags : i < j => StringLess(tags[i], tags[j])

\* Two articles share tags, and the tags were met in an order that is not theirs.
C3_Witness ==
  /\ lastOp.op = "deliver"
  /\ available = <<Article1, Article3, Article2>>
  /\ tags = <<TagB, TagA, TagAb>>

(* C4. The set of the tags of tags() is the union of the tags of the         *)
(* articles of articles(), for the same catalog.                             *)
C4_TagsAreTheTagsOfArticles ==
  delivered =>
    Range(tags) = UNION {TagSet(a) : a \in Range(articles)}

(* C5. No candidate list that filteredTags$ emits holds a tag that is        *)
(* selected when it is emitted.                                              *)
C5_CandidatesExcludeSelected ==
  /\ \A k \in DOMAIN filteredTagsLog :
       /\ filteredTagsLog[k].sel = selectedTags
       /\ Range(filteredTagsLog[k].cands) \cap Range(selectedTags) = {}
  /\ delivered => Range(filteredTags) \cap Range(selectedTags) = {}

\* A tag of the universe was chosen: the two lists emitted since are without it.
C5_Witness ==
  /\ lastOp.op = "selected"
  /\ lastOp.arg \in Range(tags)
  /\ Len(filteredTagsLog) = 2
  /\ Len(selectedTags) = 2
  /\ Len(filteredTags) = Len(tags) - 2

(* C6. filteredTags$ holds, in the order of the tag universe, exactly the    *)
(* tags whose lowercase form starts with the lowercase text of the control   *)
(* (an empty or null text matches every tag) and that are not selected.      *)
C6_CandidatesAreTheMatchingUnselectedTags ==
  delivered =>
    filteredTags =
      SubsequenceAt(tags,
        {i \in DOMAIN tags :
           /\ \/ tagsControl = Null
              \/ StartsWith(ToLowerCase(tags[i]), ToLowerCase(tagsControl))
           /\ tags[i] \notin Range(selectedTags)})

\* "B" is typed while "a" is selected: of three tags, the one that starts with
\* "b" in lowercase is the candidate.
C6_Witness ==
  /\ lastOp = [op |-> "text", arg |-> TagB]
  /\ tagsControl = TagB
  /\ selectedTags = <<TagA>>
  /\ tags = <<TagB, TagA, TagAb>>
  /\ filteredTags = <<TagB>>

(* C7. add with an empty or white-space-only value leaves selectedTags as it *)
(* was and emits nothing on tagsChange.                                      *)
C7_AddBlankIsNoOp ==
  (lastOp.op = "add" /\ IsBlank(lastOp.arg)) =>
    /\ selectedTags = prevSelected
    /\ tagsChangeLog = <<>>

\* Two spaces were submitted while a tag was selected.
C7_Witness ==
  /\ lastOp = [op |-> "add", arg |-> <<" ", " ">>]
  /\ prevSelected = <<TagA>>
  /\ homeSubscribed
  /\ delivered

(* C8. add with a value that is not empty after trimming appends it at the   *)
(* end of selectedTags, selected already or not, emits the updated           *)
(* selection on tagsChange and leaves the control null.                      *)
C8_AddAppendsAndEmits ==
  (lastOp.op = "add" /\ ~IsBlank(lastOp.arg)) =>
    /\ selectedTags = Append(prevSelected, lastOp.arg)
    /\ tagsChangeLog = <<selectedTags>>
    /\ tagsControl = Null

\* A tag that was selected already was submitted again.
C8_Witness ==
  /\ lastOp = [op |-> "add", arg |-> TagA]
  /\ prevSelected = <<TagA, TagB>>
  /\ selectedTags = <<TagA, TagB, TagA>>

(* C9. remove of a tag that is not selected leaves selectedTags as it was    *)
(* and emits nothing on tagsChange.                                          *)
C9_RemoveAbsentIsNoOp ==
  (lastOp.op = "remove" /\ lastOp.arg \notin Range(prevSelected)) =>
    /\ selectedTags = prevSelected
    /\ tagsChangeLog = <<>>

\* A tag that is not selected was removed while two others were.
C9_Witness ==
  /\ lastOp = [op |-> "remove", arg |-> TagAb]
  /\ prevSelected = <<TagA, TagB>>

(* C10. remove of a selected tag takes out its first occurrence and nothing  *)
(* else, keeps the order of the other entries and emits the updated          *)
(* selection; a tag that was selected more than once is still selected, and  *)
(* still no candidate.                                                       *)
C10_RemoveTakesFirstOccurrence ==
  (lastOp.op = "remove" /\ lastOp.arg \in Range(prevSelected)) =>
    /\ \E i \in DOMAIN prevSelected :
         /\ prevSelected[i] = lastOp.arg
         /\ \A j \in 1..(i - 1) : prevSelected[j] # lastOp.arg
         /\ selectedTags = SubsequenceAt(prevSelected, DOMAIN prevSelected \ {i})
    /\ tagsChangeLog = <<selectedTags>>
    /\ Count(prevSelected, lastOp.arg) > 1 =>
         /\ lastOp.arg \in Range(selectedTags)
         /\ delivered => lastOp.arg \notin Range(filteredTags)

\* "a" was selected first and last; the first one was removed.
C10_Witness ==
  /\ lastOp = [op |-> "remove", arg |-> TagA]
  /\ prevSelected = <<TagA, TagB, TagA>>
  /\ selectedTags = <<TagB, TagA>>
  /\ TagA \in Range(tags)


(* C11. selected with a tag appends it at the end of selectedTags, also      *)
(* when the tag is selected already, emits the updated selection on          *)
(* tagsChange and leaves the control null.                                   *)
C11_SelectedAlwaysAppends ==
  lastOp.op = "selected" =>
    /\ selectedTags = Append(prevSelected, lastOp.arg)
    /\ tagsChangeLog = <<selectedTags>>
    /\ tagsControl = Null

\* A tag that was selected already was chosen from the candidates.
C11_Witness ==
  /\ lastOp = [op |-> "selected", arg |-> TagA]
  /\ TagA \in Range(prevSelected)
  /\ Count(selectedTags, TagA) = 2

(* C12. In every state that add, remove and selected reach from the empty    *)
(* selection, selectedTags holds no tag twice.                               *)
C12_SelectedTagsHasNoDuplicates ==
  \A i, j \in DOMAIN selectedTags :
    selectedTags[i] = selectedTags[j] => i = j

(* C13. Emission contract: an add, remove or selected that changes           *)
(* selectedTags emits one value on tagsChange, the whole updated selection,  *)
(* and a subscribed home view has taken it when the operation returns; one   *)
(* that does not change selectedTags emits nothing.                          *)
C13_EmissionContract ==
  lastOp.op \in {"add", "remove", "selected"} =>
    /\ selectedTags # prevSelected =>
         /\ tagsChangeLog = <<selectedTags>>
         /\ homeSubscribed => currentFilters = selectedTags
    /\ selectedTags = prevSelected => tagsChangeLog = <<>>

\* A remove that took one of two selected tags out, with the home view
\* subscribed.
C13_Witness ==
  /\ lastOp = [op |-> "remove", arg |-> TagB]
  /\ prevSelected = <<TagA, TagB>>
  /\ selectedTags = <<TagA>>
  /\ homeSubscribed
  /\ currentFilters = <<TagA>>

\* The filtering rule of the home view, on an article list and a selection.
HomeRule(arts, sel) ==
  IF sel = <<>> THEN arts
  ELSE SubsequenceAt(arts,
         {i \in DOMAIN arts : TagSet(arts[i]) \cap Range(sel) # {}})

(* C14, as stated. Once a catalog was delivered, the filtered list of a      *)
(* subscribed view is the filtering rule on the article list delivered last  *)
(* and the selection passed last to updateFilter (the empty selection        *)
(* before the first call).                                                   *)
C14_RecomputedOnLastPassed ==
  HomeEmitted => filteredArticles = HomeRule(articles, lastPassed)

(* C14, amended. Once a catalog was delivered, the filtered list of a        *)
(* subscribed view is the filtering rule on the article list delivered last  *)
(* and the selection passed last to updateFilter while the view was          *)
(* subscribed; a selection passed before the view subscribed is not kept,    *)
(* and the view starts from the empty selection.                             *)
C14_RecomputedOnLastSeen ==
  HomeEmitted =>
    filteredArticles =
      HomeRule(articles, IF passedUnseen THEN <<>> ELSE lastPassed)

\* The view is subscribed, a catalog was delivered after the selection was
\* passed, and the list follows both.
C14_Witness ==
  /\ HomeEmitted
  /\ lastOp.op = "deliver"
  /\ ~passedUnseen
  /\ lastPassed = <<TagB>>
  /\ Len(articles) = 3
  /\ filteredArticles = <<Article2, Article3>>

\* The places of lookedUpIn whose route is '/blog/' + the slug looked up.
Matches == {i \in DOMAIN lookedUpIn : lookedUpIn[i].route = BlogPrefix \o lookedUpSlug}

\* The detail view has looked its article up, with or without success.
LookedUp == blogState \in {"done", "failed"}

(* C15. Detail view lookup: when the article list the lookup ran on has an   *)
(* article whose route is '/blog/' + slug, the lookup takes that article:    *)
(* the page title is its title followed by ' | Diehl With Software' and the  *)
(* description meta is its description.                                      *)
C15_LookupSetsTitleAndDescription ==
  (LookedUp /\ Matches # {}) =>
    /\ blogState = "done"
    /\ \E i \in Matches :
         /\ pageTitle = lookedUpIn[i].title \o <<" | Diehl With Software">>
         /\ metaDescription = lookedUpIn[i].description

\* The article of /blog/a was looked up in a list where it is not the first.
C15_Witness ==
  /\ blogState = "done"
  /\ lookedUpSlug = <<"a">>
  /\ lookedUpIn[1] # Article1
  /\ pageTitle = <<"Test", " | Diehl With Software">>
  /\ metaDescription = <<"About tests">>

\* The strings of strs, in their order, with ', ' between two of them.
RECURSIVE CommaList(_)
CommaList(strs) ==
  IF strs = <<>> THEN <<>>
  ELSE IF Len(strs) = 1 THEN strs[1]
  ELSE CommaList(SubSeq(strs, 1, Len(strs) - 1)) \o <<",", " ">> \o strs[Len(strs)]

C18_ReadNavigates ==
  lastOp.op = "read" => routerUrl = BlogPrefix \o lastOp.arg

(* C19. One lookup for each navigation: once the catalog is delivered, the   *)
(* detail view shows the result of the lookup of the slug the router has     *)
(* navigated to last.                                                        *)
C19_LookupForEachNavigation ==
  (delivered /\ blogState # "absent") => (LookedUp /\ lookedUpSlug = slug)

\* The place of the route r in the catalog of the source.
PlaceInCatalog(r) == CHOOSE i \in DOMAIN available : available[i] = r

(* C20. The order of articles() is stable: two articles of one date are in   *)
(* articles() in the order they have in the catalog the source delivered.    *)
C20_TiesKeepCatalogOrder ==
  delivered =>
    \A i, j \in DOMAIN articles :
      (i < j /\ GetTime(articles[i].date) = GetTime(articles[j].date)) =>
        PlaceInCatalog(articles[i]) < PlaceInCatalog(articles[j])

(* C21. The derived sequences follow the source: articles$ and tags$ have    *)
(* emitted nothing before the first delivery of the source, and after any    *)
(* deliveries the value of each is the derivation (filter and sort, collect  *)
(* and sort) of the catalog that was delivered last.                         *)
C21_DerivedFollowSource ==
  /\ ~delivered =>
       /\ lastOp.op \notin {"deliver", "resubscribe"}
       /\ articles = <<>> /\ tags = <<>> /\ filteredTagsLog = <<>>
  /\ delivered =>
       /\ articles = ArticlesOf(engine, available)
       /\ tags = TagsOf(engine, available)

\* A catalog of two articles and another route was delivered, after others.
C21_Witness ==
  /\ delivered
  /\ lastOp.op = "deliver"
  /\ available = <<Article4, About, Article2>>
  /\ articles = <<Article2, Article4>>
  /\ tags = <<TagB, TagA, TagZ>>

\* What the detail view writes to.
page == <<pageTitle, metaKeywords, metaDescription, shareLink>>

(* C22. Detail view lookup miss: a lookup that finds no article of route     *)
(* '/blog/' + slug fails before it has written anything, so the title, the   *)
(* keywords meta, the description meta and shareLink keep their values; the  *)
(* lookup is used up, and no later delivery makes it again.                  *)
C22_LookupMiss ==
  [][/\ blogState' = "failed" =>
          /\ page' = page
          /\ \A i \in DOMAIN lookedUpIn' :
               lookedUpIn'[i].route # BlogPrefix \o lookedUpSlug'
     /\ blogState = "failed" =>
          /\ blogState' = "failed"
          /\ lookedUpSlug' = lookedUpSlug
          /\ lookedUpIn' = lookedUpIn]_vars

\* The lookup of /blog/a failed on a list without it; a catalog that has the
\* article was delivered afterwards, and the page is as the home view left it.
C22_Witness ==
  /\ blogState = "failed"
  /\ lookedUpSlug = <<"a">>
  /\ lastOp.op = "deliver"
  /\ Article1 \in Range(articles)
  /\ Article1 \notin Range(lookedUpIn)
  /\ pageTitle = <<"Diehl With Software">>
  /\ shareLink = Undefined

(* C23. The home view replays no selection: a view that subscribes after     *)
(* updateFilter(S) starts from the empty selection and lists every article,  *)
(* until the next updateFilter that is made while it is subscribed, whose    *)
(* selection it applies.                                                     *)
C23_NoReplay ==
  /\ (homeSubscribed /\ passedUnseen) =>
       /\ currentFilters = <<>>
       /\ delivered => filteredArticles = articles
  /\ (homeSubscribed /\ lastOp.op \in {"add", "remove", "selected"}
        /\ selectedTags # prevSelected) =>
       /\ ~passedUnseen
       /\ currentFilters = selectedTags
       /\ delivered => filteredArticles = HomeRule(articles, selectedTags)

\* "B" was selected before the view subscribed; the view lists the three
\* articles, the one that has no "B" too.
C23_Witness ==
  /\ homeSubscribed
  /\ delivered
  /\ passedUnseen
  /\ lastPassed = <<TagB>>
  /\ selectedTags = <<TagB>>
  /\ Len(filteredArticles) = 3
  /\ Article1 \in Range(filteredArticles)

(* C24. Detail view with a late catalog: when the slug changes before the    *)
(* first delivery, the one lookup is made with the slug that came last and   *)
(* the article list delivered first; a slug that comes after the lookup      *)
(* changes neither the title, the metas nor shareLink.                       *)
C24_LateCatalog ==
  [][/\ (blogState = "waiting" /\ delivered') =>
          /\ blogState' \in {"done", "failed"}
          /\ lookedUpSlug' = slug
          /\ lookedUpIn' = articles'
     /\ (blogState \in {"done", "failed"} /\ slug' # slug) =>
          /\ page' = page
          /\ lookedUpSlug' = lookedUpSlug
          /\ blogState' = blogState]_vars

\* The view was made for /blog/x, the slug changed to "a" before the first
\* delivery, the article of /blog/a was looked up, and the slug changed again.
C24_Witness ==
  /\ firstSlug = <<"x">>
  /\ lookedUpSlug = <<"a">>
  /\ blogState = "done"
  /\ pageTitle = <<"Test", " | Diehl With Software">>
  /\ lastOp = [op |-> "params", arg |-> <<"d">>]
  /\ slug = <<"d">>

\* The record r of the catalog is under /blog/.
UnderBlog(r) ==
  /\ Len(r.route) >= 6
  /\ SubSeq(r.route, 1, 6) = <<"/", "b", "l", "o", "g", "/">>

(* C25. articles() holds the records of the catalog whose route starts with  *)
(* '/blog/', each of them once, and no other record.                         *)
C25_ArticlesAreTheBlogRoutes ==
  delivered =>
    /\ Range(articles) = {r \in Range(available) : UnderBlog(r)}
    /\ Len(articles) = Cardinality({i \in DOMAIN available : UnderBlog(available[i])})

\* A catalog with another route between two articles.
C25_Witness ==
  /\ delivered
  /\ available = <<Article1, About, Article2>>
  /\ Len(articles) = 2
  /\ About \notin Range(articles)

\* The selected value v is, character for character, a tag of some article.
IsTagOfAnArticle(v) == \E i \in DOMAIN articles : v \in TagSet(articles[i])

(* C26. The match of the home view is exact and case-sensitive: a selection  *)
(* that is not empty and holds only values that are no tag of any article,   *)
(* character for character (free text that differs from a tag by the case    *)
(* of a letter or by white space around it), gives an empty filtered list.   *)
C26_ExactMatch ==
  (/\ HomeEmitted
   /\ currentFilters # <<>>
   /\ \A i \in DOMAIN currentFilters : ~IsTagOfAnArticle(currentFilters[i])) =>
    filteredArticles = <<>>

\* "b" and " a" are selected while articles are tagged "B" and "a": no article
\* is listed.
C26_Witness ==
  /\ HomeEmitted
  /\ currentFilters = <<TagLowerB, <<" ", "a">>>>
  /\ Article2 \in Range(articles)
  /\ Article1 \in Range(articles)
  /\ filteredArticles = <<>>

(* C27. add keeps the value as it was submitted: the trim is for the test    *)
(* only, so a value with white space before or after it is appended to       *)
(* selectedTags, and emitted, with that white space.                         *)
C27_AddKeepsValue ==
  (lastOp.op = "add" /\ ~IsBlank(lastOp.arg)) =>
    /\ Len(selectedTags) = Len(prevSelected) + 1
    /\ selectedTags[Len(selectedTags)] = lastOp.arg
    /\ Len(tagsChangeLog) = 1
    /\ tagsChangeLog[1][Len(selectedTags)] = lastOp.arg

\* " a" was submitted: it is selected with its space, next to "a".
C27_Witness ==
  /\ lastOp = [op |-> "add", arg |-> <<" ", "a">>]
  /\ selectedTags = <<TagA, <<" ", "a">>>>
  /\ tagsChangeLog = <<selectedTags>>

(* C28. A record without a tags field is accepted everywhere: it adds        *)
(* nothing to tags(); as an article it is left out of the list of the home   *)
(* view when the selection is not empty and is in it when the selection is   *)
(* empty; and the detail view of an article without tags and keywords has    *)
(* the keywords meta 'blog'.                                                 *)
C28_NoTagsField ==
  /\ delivered =>
       Range(tags) =
         UNION {Range(r.tags) : r \in {x \in Range(available) : x.hasTags}}
  /\ HomeEmitted =>
       \A i \in DOMAIN articles :
         ~articles[i].hasTags =>
           (articles[i] \in Range(filteredArticles) <=> currentFilters = <<>>)
  /\ blogState = "done" =>
       \A i \in Matches :
         (~lookedUpIn[i].hasTags /\ ~lookedUpIn[i].hasKeywords) =>
           metaKeywords = <<"b", "l", "o", "g">>

\* The article without tags is in the catalog and shown by the detail view,
\* and the home view, with "a" selected, lists others but not it.
C28_Witness ==
  /\ HomeEmitted
  /\ Article4 \in Range(articles)
  /\ currentFilters = <<TagA>>
  /\ filteredArticles # <<>>
  /\ Article4 \notin Range(filteredArticles)
  /\ blogState = "done"
  /\ lookedUpSlug = <<"d">>
  /\ metaKeywords = <<"b", "l", "o", "g">>

(* C29. An add of an empty value or of white space resets the text filter    *)
(* all the same: the control is null after the call and the candidates are   *)
(* computed again, once, without a text and against the selection, which is  *)
(* as it was; nothing is emitted on tagsChange.                              *)
C29_BlankAddResetsFilter ==
  (lastOp.op = "add" /\ IsBlank(lastOp.arg)) =>
    /\ tagsControl = Null
    /\ filterLatest = Null
    /\ tagsChangeLog = <<>>
    /\ delivered =>
         LET cands == SubsequenceAt(tags,
                        {i \in DOMAIN tags : tags[i] \notin Range(prevSelected)})
         IN /\ filteredTags = cands
            /\ filteredTagsLog = <<[cands |-> cands, sel |-> prevSelected]>>

\* A space was submitted while "B" was selected: the candidates are the other
\* tags of the catalog.
C29_Witness ==
  /\ lastOp = [op |-> "add", arg |-> <<" ">>]
  /\ delivered
  /\ prevSelected = <<TagB>>
  /\ filteredTags = <<TagA, TagAb>>

=============================================================================
